---- MODULE Spec2Model ----
(***************************************************************************)
(* Model of snooze.c: a single-threaded HTTP server that answers           *)
(* GET /snooze/N after an N second delay and any other path with a         *)
(* configured message.                                                     *)
(*                                                                         *)
(* Bytes are ASCII codes (naturals below 256); a C string is the sequence  *)
(* of bytes that precede its terminating NUL.  Positions are 1-based: the  *)
(* C pointer  buf + k  is position  k + 1.                                 *)
(***************************************************************************)
EXTENDS Integers, Sequences, FiniteSets, TLC

(*-------------------------- program constants ---------------------------*)
MAX_HEADERS_SIZE == 1536
MAX_METHOD_SIZE == 16
MAX_PATH_SIZE == 128
MAX_AGENT_SIZE == 128
MAX_REQ_SIZE == 1024
TEMP_BUFFER_SIZE == 2048
HEADER_SIZE == 256
SNOOZE_MSG_SIZE == 128
DRAIN_BUF_SIZE == 256
LISTEN_BACKLOG == 10

(*------------------------------ literals --------------------------------*)
\* "\r\n"
CRLF == <<13, 10>>
\* "\r\n\r\n"
CRLFCRLF == <<13, 10, 13, 10>>
\* "/snooze/"
SNOOZE_PREFIX == <<47, 115, 110, 111, 111, 122, 101, 47>>
\* "User-Agent"
USER_AGENT == <<85, 115, 101, 114, 45, 65, 103, 101, 110, 116>>
\* "GET"
DEFAULT_METHOD == <<71, 69, 84>>
\* "/"
DEFAULT_PATH == <<47>>
\* "unknown"
DEFAULT_AGENT == <<117, 110, 107, 110, 111, 119, 110>>
\* "Hello from snooze!\n"
DEFAULT_MESSAGE ==
  <<72, 101, 108, 108, 111, 32, 102, 114, 111, 109, 32, 115, 110, 111, 111,
    122, 101, 33, 10>>
\* "HTTP/1.1 200 OK\r\nServer: snooze\r\n
\*  Content-Type: text/html; charset=utf-8\r\nContent-Length: "
HEADER_HEAD ==
  <<72, 84, 84, 80, 47, 49, 46, 49, 32, 50, 48, 48, 32, 79, 75, 13, 10,
    83, 101, 114, 118, 101, 114, 58, 32, 115, 110, 111, 111, 122, 101, 13, 10,
    67, 111, 110, 116, 101, 110, 116, 45, 84, 121, 112, 101, 58, 32, 116, 101,
    120, 116, 47, 104, 116, 109, 108, 59, 32, 99, 104, 97, 114, 115, 101, 116,
    61, 117, 116, 102, 45, 56, 13, 10,
    67, 111, 110, 116, 101, 110, 116, 45, 76, 101, 110, 103, 116, 104, 58, 32>>
\* "\r\nConnection: close\r\n\r\n"
HEADER_TAIL ==
  <<13, 10, 67, 111, 110, 110, 101, 99, 116, 105, 111, 110, 58, 32, 99, 108,
    111, 115, 101, 13, 10, 13, 10>>
\* "Snoozed for "
SNOOZED_FOR == <<83, 110, 111, 111, 122, 101, 100, 32, 102, 111, 114, 32>>
\* " seconds!\n"
SECONDS_BANG == <<32, 115, 101, 99, 111, 110, 100, 115, 33, 10>>
\* "9223372036854775807", LONG_MAX of a 64-bit build
LONG_MAX_DIGITS ==
  <<57, 50, 50, 51, 51, 55, 50, 48, 51, 54, 56, 53, 52, 55, 55, 53, 56, 48, 55>>

(*--------------------------- libc operators -----------------------------*)
Min(a, b) == IF a < b THEN a ELSE b

\* the first n bytes of s (all of s when it is shorter)
Take(s, n) == SubSeq(s, 1, Min(Len(s), n))

\* the bytes of s from position i on
Drop(s, i) == SubSeq(s, i, Len(s))

\* strlen(): the number of bytes before the first NUL
strlen(s) ==
  IF \E i \in 1..Len(s) : s[i] = 0
    THEN (CHOOSE i \in 1..Len(s) : s[i] = 0 /\ \A j \in 1..(i - 1) : s[j] # 0) - 1
    ELSE Len(s)

\* the C string held in a buffer
CStr(s) == SubSeq(s, 1, strlen(s))

\* pat occurs in s at position i
MatchAt(s, i, pat) ==
  /\ i >= 1
  /\ i + Len(pat) - 1 <= Len(s)
  /\ \A j \in 1..Len(pat) : s[i + j - 1] = pat[j]

\* strstr(s + from - 1, pat): position of the first occurrence at or after
\* from, 0 for NULL
strstr(s, from, pat) ==
  IF \E i \in from..Len(s) : MatchAt(s, i, pat)
    THEN CHOOSE i \in from..Len(s) :
           MatchAt(s, i, pat) /\ \A j \in from..(i - 1) : ~MatchAt(s, j, pat)
    ELSE 0

\* memchr(s + from - 1, c, n): position of the first c among n bytes, 0 for NULL
memchr(s, from, c, n) ==
  IF \E i \in from..(from + n - 1) : s[i] = c
    THEN CHOOSE i \in from..(from + n - 1) :
           s[i] = c /\ \A j \in from..(i - 1) : s[j] # c
    ELSE 0

isdigit(c) == c >= 48 /\ c <= 57

tolower(c) == IF c >= 65 /\ c <= 90 THEN c + 32 ELSE c

\* strncasecmp(a, b, n) == 0 for two byte sequences of at least n bytes
strncasecmp_eq(a, b, n) == \A i \in 1..n : tolower(a[i]) = tolower(b[i])

\* strncmp(a, b, n) == 0 where b is a literal of n bytes and a is a C string
strncmp_eq(a, b, n) == Len(a) >= n /\ \A i \in 1..n : a[i] = b[i]

\* strncpy(dst, src, n) into a zeroed buffer, read back as a C string
strncpy(src, n) == Take(src, n)

(*------------------------------- atoi -----------------------------------*)
\* value of a digit string modulo 2^32, kept as two 16-bit halves so that
\* no intermediate value leaves the 32-bit range
RECURSIVE AtoiHalves(_, _, _)
AtoiHalves(s, hi, lo) ==
  IF s = <<>> THEN <<hi, lo>>
  ELSE LET l == lo * 10 + (s[1] - 48)
           h == hi * 10 + (l \div 65536)
       IN  AtoiHalves(Tail(s), h % 65536, l % 65536)

\* the 32-bit two's complement reading of the two halves
ToInt32(hl) ==
  IF hl[1] >= 32768 THEN (hl[1] - 65536) * 65536 + hl[2]
                    ELSE hl[1] * 65536 + hl[2]

RECURSIVE StripZeros(_)
StripZeros(s) ==
  IF s # <<>> /\ s[1] = 48 THEN StripZeros(Tail(s)) ELSE s

\* a < b for two digit strings of the same length
RECURSIVE DigitsLess(_, _)
DigitsLess(a, b) ==
  IF a = <<>> THEN FALSE
  ELSE IF a[1] # b[1] THEN a[1] < b[1]
  ELSE DigitsLess(Tail(a), Tail(b))

\* the decimal value of digit string s exceeds d (d without leading zeros)
DigitsExceed(s, d) ==
  LET t == StripZeros(s)
  IN  \/ Len(t) > Len(d)
      \/ Len(t) = Len(d) /\ DigitsLess(d, t)

\* the ways an out-of-range atoi() comes out: strtol() saturating at
\* LONG_MAX and then narrowed to int, or an int accumulator wrapping
AtoiOverflow == {"saturate", "wrap"}

\* the digits at the start of s
RECURSIVE LeadingDigits(_)
LeadingDigits(s) ==
  IF s # <<>> /\ isdigit(s[1])
    THEN <<s[1]>> \o LeadingDigits(Tail(s))
    ELSE <<>>

\* atoi(): the value of the digits at the start of numstr (the caller has
\* checked that numstr holds digits only); ub selects the outcome when the
\* value does not fit an int (undefined behaviour)
atoi(numstr, ub) ==
  LET d == LeadingDigits(numstr)
  IN  IF ub = "saturate" /\ DigitsExceed(d, LONG_MAX_DIGITS)
        THEN -1
        ELSE ToInt32(AtoiHalves(d, 0, 0))

(*--------------------------- request parsing ----------------------------*)
\* memset(req, 0, sizeof(http_request_t)): every string empty, numbers zero
ZeroRequest ==
  [method |-> <<>>, path |-> <<>>, user_agent |-> <<>>,
   additional_headers |-> <<>>, snooze_seconds |-> 0, exec_time |-> 0]

\* parser locals next to the request under construction
ZeroParse ==
  [method |-> <<>>, path |-> <<>>, user_agent |-> <<>>,
   temp_buffer |-> <<>>, json_pos |-> 0, brk |-> FALSE,
   cur |-> 1, is_first_line |-> TRUE]

\* the number of loop turns evaluated in one block (a bound of the model)
ParseBlock == 32

\* the request line  METHOD /path HTTP/1.1  between cur and line_end
RequestLine(s, cur, line_end, st) ==
  LET first_space == memchr(s, cur, 32, line_end - cur)
      second_space == IF first_space # 0
                        THEN memchr(s, first_space + 1, 32,
                                    line_end - first_space - 1)
                        ELSE 0
  IN  IF first_space # 0 /\ second_space # 0
        THEN LET method_len == first_space - cur
                 path_len == second_space - (first_space + 1)
             IN  [st EXCEPT
                    !.method = IF method_len < MAX_METHOD_SIZE
                                 THEN SubSeq(s, cur, first_space - 1)
                                 ELSE @,
                    !.path = IF path_len < MAX_PATH_SIZE
                               THEN SubSeq(s, first_space + 1, second_space - 1)
                               ELSE @]
        ELSE st

\* skip spaces and tabs from p, never past line_end
SkipBlanks(s, p, line_end) ==
  CHOOSE q \in p..line_end :
    /\ \A j \in p..(q - 1) : s[j] = 32 \/ s[j] = 9
    /\ (q = line_end \/ ~(s[q] = 32 \/ s[q] = 9))

\* "\"%.*s\":\"%.*s\"" of a header name and value
JsonEntry(name, value) == <<34>> \o name \o <<34, 58, 34>> \o value \o <<34>>

\* a header line  Name: Value  between cur and line_end
HeaderLine(s, cur, line_end, st) ==
  LET colon == memchr(s, cur, 58, line_end - cur)
  IN  IF colon # 0 /\ colon < line_end
        THEN
          LET name_len == colon - cur
              value_start == SkipBlanks(s, colon + 1, line_end)
              value_len == line_end - value_start
              name == SubSeq(s, cur, colon - 1)
              value == SubSeq(s, value_start, line_end - 1)
          IN  IF name_len = 10 /\ strncasecmp_eq(name, USER_AGENT, 10)
                THEN [st EXCEPT !.user_agent =
                        IF value_len < MAX_AGENT_SIZE THEN value ELSE @]
                ELSE
                  LET comma == st.json_pos > 0
                                 /\ st.json_pos < TEMP_BUFFER_SIZE - 1
                      pos1 == IF comma THEN st.json_pos + 1 ELSE st.json_pos
                      buf1 == IF comma THEN st.temp_buffer \o <<44>>
                                       ELSE st.temp_buffer
                      entry == JsonEntry(name, value)
                      pos2 == pos1 + Len(entry)
                  IN  [st EXCEPT
                         !.temp_buffer =
                            buf1 \o Take(entry, TEMP_BUFFER_SIZE - pos1 - 1),
                         !.json_pos = pos2,
                         !.brk = pos2 >= TEMP_BUFFER_SIZE - 100]
        ELSE st

\* line_end of the line that starts at cur: its "\r\n", else the end of s
LineEnd(s, cur) ==
  LET f == strstr(s, cur, CRLF)
  IN  IF f = 0 THEN Len(s) + 1 ELSE f

\* one turn of the while loop of parse_headers over the C string s: the line
\* at st.cur is classified and cur moves past its "\r\n"; brk records that
\* the loop is left (end of s, empty line, or the break of a full buffer)
ParseTurn(s, st) ==
  IF st.brk \/ ~(st.cur < Len(s) + 1) \/ LineEnd(s, st.cur) = st.cur
    THEN [st EXCEPT !.brk = TRUE]
    ELSE [(IF st.is_first_line
             THEN RequestLine(s, st.cur, LineEnd(s, st.cur), st)
             ELSE HeaderLine(s, st.cur, LineEnd(s, st.cur), st))
          EXCEPT !.cur = LineEnd(s, st.cur) + 2, !.is_first_line = FALSE]

\* the element of a one-element set
TheOne(S) == CHOOSE x \in S : TRUE

\* at most n turns of the loop; the state after a turn is a value (t)
\* before the next turn starts from it
RECURSIVE ParseTurns(_, _, _)
ParseTurns(s, st, n) ==
  IF n = 0 \/ st.brk THEN st
  ELSE TheOne({ParseTurns(s, t, n - 1) : t \in {ParseTurn(s, st)}})

\* the while loop of parse_headers, run to its end; the turns are taken
\* ParseBlock at a time, which keeps the evaluation shallow
RECURSIVE ParseLines(_, _)
ParseLines(s, st) ==
  IF st.brk THEN st
  ELSE TheOne({ParseLines(s, t) : t \in {ParseTurns(s, st, ParseBlock)}})

\* parse_headers() without the defaults for what the pass did not set
parse_headers_no_defaults(reqbuf, req) ==
  LET st == ParseLines(CStr(reqbuf),
               [ZeroParse EXCEPT !.method = req.method, !.path = req.path,
                                 !.user_agent = req.user_agent])
  IN  [req EXCEPT
         !.method = st.method,
         !.path = st.path,
         !.user_agent = st.user_agent,
         !.additional_headers = strncpy(st.temp_buffer, MAX_HEADERS_SIZE - 1)]

\* parse_headers(): one pass over the request buffer, then the defaults
parse_headers(reqbuf, req) ==
  LET st == ParseLines(CStr(reqbuf),
               [ZeroParse EXCEPT !.method = req.method, !.path = req.path,
                                 !.user_agent = req.user_agent])
  IN  [req EXCEPT
         !.method = IF st.method = <<>>
                      THEN strncpy(DEFAULT_METHOD, MAX_METHOD_SIZE - 1)
                      ELSE st.method,
         !.path = IF st.path = <<>>
                    THEN strncpy(DEFAULT_PATH, MAX_PATH_SIZE - 1)
                    ELSE st.path,
         !.user_agent = IF st.user_agent = <<>>
                          THEN strncpy(DEFAULT_AGENT, MAX_AGENT_SIZE - 1)
                          ELSE st.user_agent,
         !.additional_headers = strncpy(st.temp_buffer, MAX_HEADERS_SIZE - 1)]

\* parse_snooze_path() without the loop that rejects a non-digit
parse_snooze_path_unchecked(path, timesec, ub) ==
  IF strncmp_eq(path, SNOOZE_PREFIX, 8) /\ Drop(path, 9) # <<>>
    THEN [ret |-> 1, timesec |-> atoi(Drop(path, 9), ub)]
    ELSE [ret |-> 0, timesec |-> timesec]

\* parse_snooze_path(): ret is the return value, timesec the value left in
\* *timesec (unchanged when the path does not match)
parse_snooze_path(path, timesec, ub) ==
  IF strncmp_eq(path, SNOOZE_PREFIX, 8)
    THEN LET numstr == Drop(path, 9)
         IN  IF numstr # <<>>
               THEN IF \E i \in 1..Len(numstr) : ~isdigit(numstr[i])
                      THEN [ret |-> 0, timesec |-> timesec]
                      ELSE [ret |-> 1, timesec |-> atoi(numstr, ub)]
               ELSE [ret |-> 0, timesec |-> timesec]
    ELSE [ret |-> 0, timesec |-> timesec]

\* extract_request_info(): zero the request, parse, resolve the snooze route
extract_request_info(reqbuf, ub) ==
  LET req == parse_headers(reqbuf, ZeroRequest)
  IN  [req EXCEPT !.snooze_seconds =
         parse_snooze_path(req.path, req.snooze_seconds, ub).timesec]

(*--------------------------- response building --------------------------*)
\* decimal digits of a natural number ("%zu", and "%d" of a non-negative int)
RECURSIVE Digits(_)
Digits(n) ==
  IF n < 10 THEN <<48 + n>> ELSE Digits(n \div 10) \o <<48 + (n % 10)>>

\* "%d"
FormatInt(n) == IF n < 0 THEN <<45>> \o Digits(0 - n) ELSE Digits(n)

\* the header with a Content-Length that counts the terminating NUL
FormatHeader_with_nul(body_len) ==
  HEADER_HEAD \o Digits(body_len + 1) \o HEADER_TAIL

\* snprintf(header, sizeof(header), ...): the would-be header text
FormatHeader(body_len) == HEADER_HEAD \o Digits(body_len) \o HEADER_TAIL

\* snprintf(snooze_msg, sizeof(snooze_msg), "Snoozed for %d seconds!\n", n)
FormatSnoozeMsg(n) ==
  Take(SNOOZED_FOR \o FormatInt(n) \o SECONDS_BANG, SNOOZE_MSG_SIZE - 1)

(*------------------------------- inputs ---------------------------------*)
\* GET /snooze/1 HTTP/1.1\r\nUser-Agent: t\r\n\r\n
REQ_SNOOZE_1 ==
  <<71, 69, 84, 32, 47, 115, 110, 111, 111, 122, 101, 47, 49, 32, 72, 84,
  84, 80, 47, 49, 46, 49, 13, 10, 85, 115, 101, 114, 45, 65, 103, 101, 110,
  116, 58, 32, 116, 13, 10, 13, 10>>
\* GET /snooze/2 HTTP/1.1\r\n\r\n
REQ_SNOOZE_2 ==
  <<71, 69, 84, 32, 47, 115, 110, 111, 111, 122, 101, 47, 50, 32, 72, 84,
  84, 80, 47, 49, 46, 49, 13, 10, 13, 10>>
\* GET /snooze/0 HTTP/1.1\r\n\r\n
REQ_SNOOZE_0 ==
  <<71, 69, 84, 32, 47, 115, 110, 111, 111, 122, 101, 47, 48, 32, 72, 84,
  84, 80, 47, 49, 46, 49, 13, 10, 13, 10>>
\* GET /snooze/12a HTTP/1.1\r\nHost: h\r\n\r\n
REQ_SNOOZE_12A ==
  <<71, 69, 84, 32, 47, 115, 110, 111, 111, 122, 101, 47, 49, 50, 97, 32,
  72, 84, 84, 80, 47, 49, 46, 49, 13, 10, 72, 111, 115, 116, 58, 32, 104,
  13, 10, 13, 10>>
\* GET /snooze/ HTTP/1.1\r\n\r\n
REQ_SNOOZE_EMPTY ==
  <<71, 69, 84, 32, 47, 115, 110, 111, 111, 122, 101, 47, 32, 72, 84, 84,
  80, 47, 49, 46, 49, 13, 10, 13, 10>>
\* GET /snooze/-3 HTTP/1.1\r\n\r\n
REQ_SNOOZE_NEG ==
  <<71, 69, 84, 32, 47, 115, 110, 111, 111, 122, 101, 47, 45, 51, 32, 72,
  84, 84, 80, 47, 49, 46, 49, 13, 10, 13, 10>>
\* GET /snooze HTTP/1.1\r\n\r\n
REQ_SNOOZE_NOSLASH ==
  <<71, 69, 84, 32, 47, 115, 110, 111, 111, 122, 101, 32, 72, 84, 84, 80,
  47, 49, 46, 49, 13, 10, 13, 10>>
\* GET /snooze/1/x HTTP/1.1\r\n\r\n
REQ_SNOOZE_TRAIL ==
  <<71, 69, 84, 32, 47, 115, 110, 111, 111, 122, 101, 47, 49, 47, 120, 32,
  72, 84, 84, 80, 47, 49, 46, 49, 13, 10, 13, 10>>
\* POST / HTTP/1.1\r\nHost: h\r\n\r\nbody
REQ_ROOT_BODY ==
  <<80, 79, 83, 84, 32, 47, 32, 72, 84, 84, 80, 47, 49, 46, 49, 13, 10, 72,
  111, 115, 116, 58, 32, 104, 13, 10, 13, 10, 98, 111, 100, 121>>
\* GET /a HTTP/1.1\r\n
REQ_NO_END ==
  <<71, 69, 84, 32, 47, 97, 32, 72, 84, 84, 80, 47, 49, 46, 49, 13, 10>>

\* GET /\0 HTTP/1.1\r\n\r\n: a zero byte in the request target
REQ_NUL ==
  <<71, 69, 84, 32, 47, 0, 32, 72, 84, 84, 80, 47, 49, 46, 49, 13, 10, 13,
  10>>
\* GET /one\r\n\r\n: a request line with a single space
REQ_ONE_SPACE ==
  <<71, 69, 84, 32, 47, 111, 110, 101, 13, 10, 13, 10>>
\* GET /snooze/2147483648 HTTP/1.1\r\n\r\n: INT_MAX + 1 seconds
REQ_SNOOZE_BIG ==
  <<71, 69, 84, 32, 47, 115, 110, 111, 111, 122, 101, 47, 50, 49, 52, 55,
  52, 56, 51, 54, 52, 56, 32, 72, 84, 84, 80, 47, 49, 46, 49, 13, 10, 13, 10>>
\* GET /h HTTP/1.1\r\nHost: h\r\nuser-AGENT:\t a\r\nnocolon\r\nX-B:  v\r\n\r\nAfter: x\r\n
REQ_HEADERS ==
  <<71, 69, 84, 32, 47, 104, 32, 72, 84, 84, 80, 47, 49, 46, 49, 13, 10, 72,
  111, 115, 116, 58, 32, 104, 13, 10, 117, 115, 101, 114, 45, 65, 71, 69,
  78, 84, 58, 9, 32, 97, 13, 10, 110, 111, 99, 111, 108, 111, 110, 13, 10,
  88, 45, 66, 58, 32, 32, 118, 13, 10, 13, 10, 65, 102, 116, 101, 114, 58,
  32, 120, 13, 10>>
\*  HTTP/1.1\r\n
HTTP_1_1_CRLF ==
  <<32, 72, 84, 84, 80, 47, 49, 46, 49, 13, 10>>
\* User-Agent: 
USER_AGENT_COLON ==
  <<85, 115, 101, 114, 45, 65, 103, 101, 110, 116, 58, 32>>
\* User-Agent: ok\r\n
USER_AGENT_OK ==
  <<85, 115, 101, 114, 45, 65, 103, 101, 110, 116, 58, 32, 111, 107, 13, 10>>
\* GET / HTTP/1.1\r\n
GET_ROOT_LINE ==
  <<71, 69, 84, 32, 47, 32, 72, 84, 84, 80, 47, 49, 46, 49, 13, 10>>

\* n bytes c
Rep(c, n) == [i \in 1..n |-> c]

\* a method, a request target and a User-Agent value of exactly the size of
\* their destinations
REQ_LONG_ALL ==
  Rep(77, MAX_METHOD_SIZE) \o <<32, 47>> \o Rep(112, MAX_PATH_SIZE - 1)
    \o HTTP_1_1_CRLF \o USER_AGENT_COLON \o Rep(117, MAX_AGENT_SIZE)
    \o CRLFCRLF

\* a User-Agent that fits followed by one that does not
REQ_LONG_AGENT ==
  GET_ROOT_LINE \o USER_AGENT_OK \o USER_AGENT_COLON
    \o Rep(117, MAX_AGENT_SIZE) \o CRLFCRLF

\* more bytes than the request buffer holds and no blank line
REQ_FLOOD == <<71, 69, 84, 32, 47>> \o Rep(97, MAX_REQ_SIZE)

\* a complete request followed by a body of two drain buffers
REQ_LONG_BODY == GET_ROOT_LINE \o CRLF \o Rep(98, 2 * DRAIN_BUF_SIZE)

\* the client that connects and closes without sending a byte
REQ_NOTHING == <<>>

\* bounds of the model
MaxConns == 2
MaxSignals == 1
MaxTime == 1
MinPartial == 64
ChunkSize == 24
LongLen == 10000

\* requests a single client may send
Requests ==
  {REQ_SNOOZE_1, REQ_SNOOZE_2, REQ_SNOOZE_0, REQ_SNOOZE_12A, REQ_SNOOZE_EMPTY,
   REQ_SNOOZE_NEG, REQ_SNOOZE_NOSLASH, REQ_SNOOZE_TRAIL, REQ_ROOT_BODY,
   REQ_NO_END, REQ_NOTHING, REQ_NUL, REQ_ONE_SPACE, REQ_SNOOZE_BIG,
   REQ_HEADERS, REQ_LONG_ALL, REQ_LONG_AGENT, REQ_FLOOD, REQ_LONG_BODY}

\* requests of the runs with several clients
CoreRequests == {REQ_SNOOZE_1, REQ_ROOT_BODY}

\* a body of LongLen bytes
LongMessage == [i \in 1..LongLen |-> 120]

\* what the clients of one run send, in connection order: one client with
\* any request, or several clients with the same core request
Plans ==
  {<<r>> : r \in Requests}
    \cup {[i \in 1..n |-> r] : n \in 2..MaxConns, r \in CoreRequests}

\* the configured message (MESSAGE, --message or DEFAULT_MESSAGE) with the
\* client plans it is run against
Configs ==
  {[message |-> DEFAULT_MESSAGE, plan |-> p] : p \in Plans}
    \cup {[message |-> m, plan |-> <<r>>] :
            m \in {<<>>, LongMessage},
            r \in {REQ_ROOT_BODY}}

(*------------------------------- state ----------------------------------*)
VARIABLES
  message,          \* const char *message of main
  plan,             \* the requests the clients are going to send
  keep_running,     \* static volatile int keep_running
  shutdown_logged,  \* int shutdown_logged of main
  pc,               \* position of the main thread
  conn,             \* per connection: socket state, client side, counters
  client_fd,        \* the connection being handled, 0 when none
  now,              \* whole seconds since gettimeofday(&start)
  reqbuf,           \* bytes received so far (total = Len(reqbuf))
  request,          \* http_request_t request
  header,           \* char header[256] of send_http_response
  body,             \* the body_len bytes of the message to send
  sent,             \* size_t sent of send_all
  wire,             \* bytes the kernel took for sending on client_fd
  wake,             \* time at which sleep() is over
  read_done,        \* time at which the read loop ended, -1 before
  resp,             \* how the response went: "none", "full" or "failed"
  drained,          \* the drain loop has called recv()
  sigs,             \* signals delivered so far
  sig_conn,         \* connection in progress when the first signal came
  sig_accepts       \* connections accept() returned after a signal

vars ==
  <<message, plan, keep_running, shutdown_logged, pc, conn, client_fd, now,
    reqbuf, request, header, body, sent, wire, wake, read_done, resp,
    drained, sigs, sig_conn, sig_accepts>>

Conns == 1..MaxConns

\* a connection nobody has opened yet
NoConn ==
  [st |-> "none", tosend |-> <<>>, rcvbuf |-> <<>>, peer |-> "none",
   logs |-> 0, closes |-> 0]

\* the locals of the loop body before the loop body has run
InitCur ==
  /\ reqbuf = <<>>
  /\ request = ZeroRequest
  /\ header = <<>>
  /\ body = <<>>
  /\ sent = 0
  /\ wire = <<>>
  /\ wake = 0
  /\ read_done = -1
  /\ resp = "none"
  /\ drained = FALSE

Init ==
  /\ \E c \in Configs : message = c.message /\ plan = c.plan
  /\ keep_running = 1
  /\ shutdown_logged = 0
  /\ pc = "loop"
  /\ conn = [k \in Conns |-> NoConn]
  /\ client_fd = 0
  /\ now = 0
  /\ InitCur
  /\ sigs = 0
  /\ sig_conn = 0
  /\ sig_accepts = 0

\* variables of the connection in progress
cur_vars ==
  <<reqbuf, request, header, body, sent, wire, wake, read_done, resp,
    drained>>

\* history of the signals
sig_vars == <<sigs, sig_conn, sig_accepts>>

(*------------------------------ clients ---------------------------------*)
Backlog == {k \in Conns : conn[k].st = "backlog"}

\* a client completes the TCP handshake; the kernel queues the connection
ClientConnect(k) ==
  /\ k <= Len(plan)
  /\ conn[k].st = "none"
  /\ \A j \in 1..(k - 1) : conn[j].st # "none"
  /\ Cardinality(Backlog) < LISTEN_BACKLOG
  /\ pc # "done"
  /\ conn' = [conn EXCEPT ![k] =
                [NoConn EXCEPT !.st = "backlog", !.tosend = plan[k],
                               !.peer = "open"]]
  /\ UNCHANGED <<message, plan, keep_running, shutdown_logged, pc, client_fd,
                 now, cur_vars, sig_vars>>

\* a client whose connection has been accepted sends its request in one
\* piece, or in two: a first chunk and then the rest
ClientSend(k) ==
  /\ conn[k].st \in {"open", "shutwr"}
  /\ conn[k].peer = "open"
  /\ conn[k].tosend # <<>>
  /\ \E n \in {Len(conn[k].tosend)} \cup
              {c \in {ChunkSize} : /\ c < Len(conn[k].tosend)
                                    /\ conn[k].tosend = plan[k]} :
       conn' = [conn EXCEPT
                  ![k].rcvbuf = @ \o Take(conn[k].tosend, n),
                  ![k].tosend = Drop(@, n + 1)]
  /\ UNCHANGED <<message, plan, keep_running, shutdown_logged, pc, client_fd,
                 now, cur_vars, sig_vars>>

\* a client closes its end; what it had not sent is never sent
ClientClose(k) ==
  /\ conn[k].st \in {"open", "shutwr"}
  /\ conn[k].peer = "open"
  /\ conn' = [conn EXCEPT ![k].peer = "closed", ![k].tosend = <<>>]
  /\ UNCHANGED <<message, plan, keep_running, shutdown_logged, pc, client_fd,
                 now, cur_vars, sig_vars>>

(*---------------------------- accept loop -------------------------------*)
\* positions of the main thread between accept() returning a client and the
\* end of the loop body
HandlingPcs ==
  {"recv", "parse", "handle", "sleep", "send_hdr", "send_body",
   "gc_shutdown", "gc_drain", "gc_close", "log", "cleanup"}

\* for (;;) { if (!keep_running) { ...; break; } ...
LoopTest ==
  /\ pc = "loop"
  /\ IF keep_running = 0
       THEN /\ shutdown_logged' = 1
            /\ pc' = "exit"
       ELSE /\ pc' = "accept_call"
            /\ UNCHANGED shutdown_logged
  /\ UNCHANGED <<message, plan, keep_running, conn, client_fd, now, cur_vars,
                 sig_vars>>

\* accept() hands over the oldest queued connection; the loop body starts:
\* gettimeofday(&start), char reqbuf[MAX_REQ_SIZE] = {0}, total = 0
Accepted(k) ==
  /\ conn' = [conn EXCEPT ![k].st = "open"]
  /\ client_fd' = k
  /\ now' = 0
  /\ reqbuf' = <<>>
  /\ request' = ZeroRequest
  /\ header' = <<>>
  /\ body' = <<>>
  /\ sent' = 0
  /\ wire' = <<>>
  /\ wake' = 0
  /\ read_done' = -1
  /\ resp' = "none"
  /\ drained' = FALSE
  /\ sig_accepts' = IF sigs > 0 THEN sig_accepts + 1 ELSE sig_accepts
  /\ pc' = "recv"
  /\ UNCHANGED <<message, plan, keep_running, shutdown_logged, sigs, sig_conn>>

Oldest(S) == CHOOSE k \in S : \A j \in S : k <= j

\* int client_fd = accept(server_fd, NULL, NULL): returns at once when a
\* connection is queued, blocks otherwise
AcceptCall ==
  /\ pc = "accept_call"
  /\ IF Backlog # {}
       THEN Accepted(Oldest(Backlog))
       ELSE /\ pc' = "accept_blocked"
            /\ UNCHANGED <<message, plan, keep_running, shutdown_logged, conn,
                           client_fd, now, cur_vars, sig_vars>>

\* the blocked accept() returns when a client has connected
AcceptReturn ==
  /\ pc = "accept_blocked"
  /\ Backlog # {}
  /\ Accepted(Oldest(Backlog))

\* accept() fails with an error other than EINTR: log it and continue
AcceptError ==
  /\ pc \in {"accept_call", "accept_blocked"}
  /\ pc' = "loop"
  /\ UNCHANGED <<message, plan, keep_running, shutdown_logged, conn,
                 client_fd, now, cur_vars, sig_vars>>

(*----------------------------- read loop --------------------------------*)
\* the loop condition without the test for a full buffer
ReadMore_unbounded(buf) == strstr(CStr(buf), 1, CRLFCRLF) = 0

\* the loop condition after a recv() that returned n > 0 bytes
ReadMore(buf) ==
  /\ strstr(CStr(buf), 1, CRLFCRLF) = 0
  /\ ~(Len(buf) >= MAX_REQ_SIZE - 1)

\* recv(client_fd, reqbuf + total, sizeof(reqbuf) - 1 - total, 0) with data
\* queued (n > 0) or with the peer gone (n == 0)
Recv ==
  /\ pc = "recv"
  /\ LET c == conn[client_fd]
         n == Min(Len(c.rcvbuf), MAX_REQ_SIZE - 1 - Len(reqbuf))
     IN  \/ /\ c.rcvbuf # <<>>
            /\ reqbuf' = reqbuf \o Take(c.rcvbuf, n)
            /\ conn' = [conn EXCEPT ![client_fd].rcvbuf = Drop(@, n + 1)]
            /\ IF ReadMore(reqbuf')
                 THEN pc' = "recv" /\ UNCHANGED read_done
                 ELSE pc' = "parse" /\ read_done' = now
         \/ /\ c.rcvbuf = <<>>
            /\ c.peer = "closed"
            /\ pc' = "parse"
            /\ read_done' = now
            /\ UNCHANGED <<reqbuf, conn>>
  /\ UNCHANGED <<message, plan, keep_running, shutdown_logged, client_fd, now,
                 request, header, body, sent, wire, wake, resp, drained,
                 sig_vars>>

\* recv() fails (n < 0): the while condition is false, the loop ends
RecvError ==
  /\ pc = "recv"
  /\ pc' = "parse"
  /\ read_done' = now
  /\ UNCHANGED <<message, plan, keep_running, shutdown_logged, conn, client_fd,
                 now, reqbuf, request, header, body, sent, wire, wake,
                 resp, drained, sig_vars>>

\* extract_request_info(reqbuf, &request)
Parse ==
  /\ pc = "parse"
  /\ \E ub \in AtoiOverflow : request' = extract_request_info(reqbuf, ub)
  /\ pc' = "handle"
  /\ UNCHANGED <<message, plan, keep_running, shutdown_logged, conn, client_fd,
                 now, reqbuf, header, body, sent, wire, wake, read_done,
                 resp, drained, sig_vars>>

(*------------------------------ response --------------------------------*)
\* send_http_response() up to the first send_all(): format the header, and
\* go straight to graceful_close() when it does not fit
send_http_response(msg) ==
  /\ body' = Take(msg, strlen(msg))
  /\ header' = FormatHeader(strlen(msg))
  /\ sent' = 0
  /\ pc' = IF Len(header') >= HEADER_SIZE THEN "gc_shutdown" ELSE "send_hdr"

\* handle_request() that leaves the snooze route to be answered later and
\* returns to the accept loop with the connection open
handle_request_detached ==
  /\ pc = "handle"
  /\ IF request.snooze_seconds > 0
       THEN /\ pc' = "loop"
            /\ client_fd' = 0
            /\ UNCHANGED <<header, body, sent>>
       ELSE /\ send_http_response(message)
            /\ UNCHANGED client_fd
  /\ UNCHANGED <<message, plan, keep_running, shutdown_logged, conn, now,
                 reqbuf, request, wire, wake, read_done, resp, drained,
                 sig_vars>>

\* handle_request(): sleep first on the snooze route
handle_request ==
  /\ pc = "handle"
  /\ IF request.snooze_seconds > 0
       THEN /\ wake' = now + request.snooze_seconds
            /\ pc' = "sleep"
            /\ UNCHANGED <<header, body, sent>>
       ELSE /\ send_http_response(message)
            /\ UNCHANGED wake
  /\ UNCHANGED <<message, plan, keep_running, shutdown_logged, conn, client_fd,
                 now, reqbuf, request, wire, read_done, resp, drained,
                 sig_vars>>

\* sleep(req->snooze_seconds) is over; build and send the snooze message
SleepReturn ==
  /\ pc = "sleep"
  /\ now >= wake
  /\ send_http_response(FormatSnoozeMsg(request.snooze_seconds))
  /\ UNCHANGED <<message, plan, keep_running, shutdown_logged, conn, client_fd,
                 now, reqbuf, request, wire, wake, read_done, resp,
                 drained, sig_vars>>

\* the buffer the running send_all() is sending
SendBuf == IF pc = "send_hdr" THEN header ELSE body

\* the byte counts a send() of len bytes may report: all of them, or half
PartialSends(len) == {len} \cup {len \div 2 : x \in {len} \cap (MinPartial..len)}

\* send_all(): one turn of  while (sent < len)  with a send() that takes
\* n > 0 bytes, or the return of 0 once everything is sent
send_all ==
  /\ pc \in {"send_hdr", "send_body"}
  /\ IF sent < Len(SendBuf)
       THEN \E n \in PartialSends(Len(SendBuf) - sent) :
              /\ wire' = wire \o SubSeq(SendBuf, sent + 1, sent + n)
              /\ sent' = sent + n
              /\ UNCHANGED <<pc, resp>>
       ELSE /\ IF pc = "send_hdr"
                 THEN pc' = "send_body" /\ UNCHANGED resp
                 ELSE pc' = "gc_shutdown" /\ resp' = "full"
            /\ sent' = 0
            /\ UNCHANGED wire
  /\ UNCHANGED <<message, plan, keep_running, shutdown_logged, conn, client_fd,
                 now, reqbuf, request, header, body, wake, read_done, drained,
                 sig_vars>>

\* a failed send_all() of the header that is ignored: the body is sent next
SendFail_header_ignored ==
  /\ pc \in {"send_hdr", "send_body"}
  /\ sent < Len(SendBuf)
  /\ IF pc = "send_hdr"
       THEN pc' = "send_body" /\ sent' = 0 /\ UNCHANGED resp
       ELSE pc' = "gc_shutdown" /\ resp' = "failed" /\ UNCHANGED sent
  /\ UNCHANGED <<message, plan, keep_running, shutdown_logged, conn, client_fd,
                 now, reqbuf, request, header, body, wire, wake,
                 read_done, drained, sig_vars>>

\* send() returns 0 or fails with an error other than EINTR: send_all()
\* returns -1 and send_http_response() goes to graceful_close()
SendFail ==
  /\ pc \in {"send_hdr", "send_body"}
  /\ sent < Len(SendBuf)
  /\ pc' = "gc_shutdown"
  /\ resp' = "failed"
  /\ UNCHANGED <<message, plan, keep_running, shutdown_logged, conn, client_fd,
                 now, reqbuf, request, header, body, sent, wire, wake,
                 read_done, drained, sig_vars>>

(*--------------------------- graceful_close -----------------------------*)
\* graceful_close() without the shutdown() call
GcShutdown_skipped ==
  /\ pc = "gc_shutdown"
  /\ pc' = "gc_drain"
  /\ UNCHANGED <<message, plan, keep_running, shutdown_logged, conn, client_fd,
                 now, cur_vars, sig_vars>>

\* shutdown(sock, SHUT_WR)
GcShutdown ==
  /\ pc = "gc_shutdown"
  /\ conn' = [conn EXCEPT ![client_fd].st =
                IF @ = "open" THEN "shutwr" ELSE @]
  /\ pc' = "gc_drain"
  /\ UNCHANGED <<message, plan, keep_running, shutdown_logged, client_fd, now,
                 cur_vars, sig_vars>>

\* a drain loop that goes on when there is nothing to read (EAGAIN) and
\* stops only when the peer has closed
GcDrain_spin ==
  /\ pc = "gc_drain"
  /\ drained' = TRUE
  /\ LET c == conn[client_fd]
     IN  IF c.rcvbuf # <<>>
           THEN /\ conn' = [conn EXCEPT ![client_fd].rcvbuf =
                              Drop(@, Min(Len(@), DRAIN_BUF_SIZE) + 1)]
                /\ UNCHANGED pc
           ELSE /\ pc' = IF c.peer = "closed" THEN "gc_close" ELSE pc
                /\ UNCHANGED conn
  /\ UNCHANGED <<message, plan, keep_running, shutdown_logged, client_fd, now,
                 reqbuf, request, header, body, sent, wire, wake, read_done,
                 resp, sig_vars>>

\* one recv(sock, buf, sizeof(buf), MSG_DONTWAIT) of the drain loop: discard
\* what came (n > 0), stop on n == 0 and on EAGAIN
GcDrain ==
  /\ pc = "gc_drain"
  /\ drained' = TRUE
  /\ LET c == conn[client_fd]
     IN  IF c.rcvbuf # <<>>
           THEN /\ conn' = [conn EXCEPT ![client_fd].rcvbuf =
                              Drop(@, Min(Len(@), DRAIN_BUF_SIZE) + 1)]
                /\ UNCHANGED pc
           ELSE /\ pc' = "gc_close"
                /\ UNCHANGED conn
  /\ UNCHANGED <<message, plan, keep_running, shutdown_logged, client_fd, now,
                 reqbuf, request, header, body, sent, wire, wake, read_done,
                 resp, sig_vars>>

\* the drain recv() fails with an error other than EAGAIN and EINTR
GcDrainError ==
  /\ pc = "gc_drain"
  /\ drained' = TRUE
  /\ pc' = "gc_close"
  /\ UNCHANGED <<message, plan, keep_running, shutdown_logged, conn, client_fd,
                 now, reqbuf, request, header, body, sent, wire, wake,
                 read_done, resp, sig_vars>>

\* a close() that does not reach the client socket
CloseFd_leak(c) == [c EXCEPT !.closes = @ + 1]

\* close(fd) on a connection record: the socket is gone with what it held;
\* on a descriptor already closed it fails with EBADF and changes nothing
CloseFd(c) ==
  [c EXCEPT !.st = "closed", !.rcvbuf = <<>>, !.tosend = <<>>,
            !.peer = "none", !.closes = @ + 1]

\* close(sock) at the end of graceful_close()
GcClose ==
  /\ pc = "gc_close"
  /\ conn' = [conn EXCEPT ![client_fd] = CloseFd(@)]
  /\ pc' = "log"
  /\ UNCHANGED <<message, plan, keep_running, shutdown_logged, client_fd, now,
                 cur_vars, sig_vars>>

(*------------------------- end of the loop body -------------------------*)
\* the end of the loop body with a log call only after a complete response
log_request_on_success ==
  /\ pc = "log"
  /\ request' = [request EXCEPT !.exec_time = now]
  /\ conn' = [conn EXCEPT ![client_fd].logs =
                 IF resp = "full" THEN @ + 1 ELSE @]
  /\ pc' = "cleanup"
  /\ UNCHANGED <<message, plan, keep_running, shutdown_logged, client_fd, now,
                 reqbuf, header, body, sent, wire, wake, read_done, resp,
                 drained, sig_vars>>

\* gettimeofday(&end), request.exec_time = ..., log_request(&request)
log_request ==
  /\ pc = "log"
  /\ request' = [request EXCEPT !.exec_time = now]
  /\ conn' = [conn EXCEPT ![client_fd].logs = @ + 1]
  /\ pc' = "cleanup"
  /\ UNCHANGED <<message, plan, keep_running, shutdown_logged, client_fd, now,
                 reqbuf, header, body, sent, wire, wake, read_done, resp,
                 drained, sig_vars>>

\* close(client_fd) of main; the locals of the loop body go out of scope
\* and the next turn of the loop begins
Cleanup ==
  /\ pc = "cleanup"
  /\ conn' = [conn EXCEPT ![client_fd] = CloseFd(@)]
  /\ client_fd' = 0
  /\ now' = 0
  /\ reqbuf' = <<>>
  /\ request' = ZeroRequest
  /\ header' = <<>>
  /\ body' = <<>>
  /\ sent' = 0
  /\ wire' = <<>>
  /\ wake' = 0
  /\ read_done' = -1
  /\ resp' = "none"
  /\ drained' = FALSE
  /\ pc' = "loop"
  /\ UNCHANGED <<message, plan, keep_running, shutdown_logged, sig_vars>>

\* after the loop: close(server_fd), log the shutdown, return 0.  Closing
\* the listening socket destroys every connection still queued for accept():
\* it is never accepted, and its client finds the connection reset
Exit ==
  /\ pc = "exit"
  /\ pc' = "done"
  /\ conn' = [k \in Conns |->
                IF conn[k].st = "backlog"
                  THEN [conn[k] EXCEPT !.st = "reset", !.tosend = <<>>]
                  ELSE conn[k]]
  /\ UNCHANGED <<message, plan, keep_running, shutdown_logged, client_fd,
                 now, cur_vars, sig_vars>>

(*------------------------------- signals --------------------------------*)
\* the main thread is inside a recv() that has nothing to return
RecvBlocked ==
  /\ pc = "recv"
  /\ conn[client_fd].rcvbuf = <<>>
  /\ conn[client_fd].peer = "open"

\* a signal handler that ends the process on the spot
handle_signal_exit ==
  /\ sigs < MaxSignals
  /\ pc # "done"
  /\ keep_running' = 0
  /\ sigs' = sigs + 1
  /\ sig_conn' = IF sigs = 0 THEN client_fd ELSE sig_conn
  /\ pc' = "done"
  /\ UNCHANGED <<message, plan, shutdown_logged, conn, client_fd, now,
                 cur_vars, sig_accepts>>

\* SIGINT or SIGTERM: handle_signal() runs, and the system call the main
\* thread is blocked in returns early (sa_flags has no SA_RESTART)
handle_signal ==
  /\ sigs < MaxSignals
  /\ pc # "done"
  /\ keep_running' = 0
  /\ sigs' = sigs + 1
  /\ sig_conn' = IF sigs = 0 THEN client_fd ELSE sig_conn
  /\ UNCHANGED <<message, plan, shutdown_logged, conn, client_fd, now, reqbuf,
                 request, wire, wake, resp, drained, sig_accepts>>
  /\ CASE pc = "accept_blocked" ->
            \* accept() fails with EINTR: continue
            /\ pc' = "loop"
            /\ UNCHANGED <<header, body, sent, read_done>>
       [] pc = "sleep" ->
            \* sleep() returns the seconds left, which nobody reads
            /\ send_http_response(FormatSnoozeMsg(request.snooze_seconds))
            /\ UNCHANGED read_done
       [] RecvBlocked ->
            \* either recv() was entered and fails with EINTR, which ends
            \* the read loop, or the signal came just before the call
            \/ /\ pc' = "parse"
               /\ read_done' = now
               /\ UNCHANGED <<header, body, sent>>
            \/ UNCHANGED <<pc, header, body, sent, read_done>>
       [] OTHER ->
            \* send() and the drain recv() are retried on EINTR
            UNCHANGED <<pc, header, body, sent, read_done>>

\* a second of wall-clock time passes while the main thread waits for the
\* client's bytes or sleeps
Tick ==
  /\ (RecvBlocked /\ now < MaxTime) \/ (pc = "sleep" /\ now < wake)
  /\ now' = now + 1
  /\ UNCHANGED <<message, plan, keep_running, shutdown_logged, pc, conn,
                 client_fd, cur_vars, sig_vars>>

Next ==
  \/ \E k \in Conns : ClientConnect(k)
  \/ \E k \in Conns : ClientSend(k)
  \/ \E k \in Conns : ClientClose(k)
  \/ LoopTest
  \/ AcceptCall
  \/ AcceptReturn
  \/ AcceptError
  \/ Recv
  \/ RecvError
  \/ Parse
  \/ handle_request
  \/ SleepReturn
  \/ send_all
  \/ SendFail
  \/ GcShutdown
  \/ GcDrain
  \/ GcDrainError
  \/ GcClose
  \/ log_request
  \/ Cleanup
  \/ Exit
  \/ handle_signal
  \/ Tick

Spec == Init /\ [][Next]_vars

\* the server process keeps running: a drain recv() and the close() that
\* follows it return, they do not wait for the peer
LiveSpec == Spec /\ WF_vars(GcDrain) /\ WF_vars(GcClose)

\* a step the server process takes by itself once it is enabled: every
\* statement of main and of the functions it calls, and every system call
\* whose result is there (a queued connection, received bytes, buffer space)
ServerStep ==
  \/ LoopTest
  \/ AcceptCall
  \/ AcceptReturn
  \/ Recv
  \/ Parse
  \/ handle_request
  \/ SleepReturn
  \/ send_all
  \/ GcShutdown
  \/ GcDrain
  \/ GcClose
  \/ log_request
  \/ Cleanup
  \/ Exit

\* the server process keeps running and time passes; clients, signals and
\* failing system calls come or do not
FairSpec == Spec /\ WF_vars(ServerStep) /\ WF_vars(Tick)

TypeOK ==
  /\ keep_running \in {0, 1}
  /\ client_fd \in 0..MaxConns
  /\ pc \in HandlingPcs \cup
            {"loop", "accept_call", "accept_blocked", "exit", "done"}

(*======================= properties of the server =======================*)
\* positions at which the request of the connection in progress is parsed
ParsedPcs == HandlingPcs \ {"recv", "parse"}

\* positions outside the loop body
IdlePcs == {"loop", "accept_call", "accept_blocked", "exit", "done"}

\* decimal value of a digit string
RECURSIVE DecimalValue(_)
DecimalValue(d) ==
  IF d = <<>> THEN 0
  ELSE 10 * DecimalValue(SubSeq(d, 1, Len(d) - 1)) + (d[Len(d)] - 48)

\* the path is /snooze/ followed by one or more digits and nothing else
IsSnoozePath(path) ==
  /\ Len(path) > 8
  /\ SubSeq(path, 1, 8) = SNOOZE_PREFIX
  /\ \A i \in 9..Len(path) : path[i] \in 48..57

\* the N of a path /snooze/N
SnoozeN(path) == DecimalValue(SubSeq(path, 9, Len(path)))

\* the text "Snoozed for <N> seconds!\n"
SnoozeText(digits) == SNOOZED_FOR \o digits \o SECONDS_BANG

\* position of the blank line that ends the header block on the wire
WireBlank(w) == strstr(w, 1, CRLFCRLF)

\* the bytes that follow the header block on the wire
WireBody(w) == Drop(w, WireBlank(w) + 4)

\* "Content-Length: "
CONTENT_LENGTH == SubSeq(HEADER_HEAD, 74, 89)

\* the number written in the Content-Length header on the wire
WireContentLength(w) ==
  LET from == strstr(w, 1, CONTENT_LENGTH) + Len(CONTENT_LENGTH)
      to == strstr(w, from, CRLF)
  IN  DecimalValue(SubSeq(w, from, to - 1))

\* C1: for a request whose path is /snooze/<N> with N > 0, at least N
\* seconds lie between the end of request reading and the first response
\* byte, and the body of the complete response is "Snoozed for <N> seconds!\n"
\* (stated for the N of at most nine digits, which an int holds)
C1_SnoozeDelayAndBody ==
  (pc \in ParsedPcs /\ IsSnoozePath(request.path)
     /\ Len(request.path) < 18
     /\ SnoozeN(request.path) > 0)
  => /\ (wire # <<>> => now - read_done >= SnoozeN(request.path))
     /\ (resp = "full" =>
           WireBody(wire) = SnoozeText(SubSeq(request.path, 9, Len(request.path))))

\* C2: a request for exactly /snooze/0 is answered without delay and with
\* the body "Snoozed for 0 seconds!\n"
C2_SnoozeZeroBody ==
  (pc \in ParsedPcs /\ request.path = SNOOZE_PREFIX \o <<48>>)
  => /\ pc # "sleep"
     /\ (resp = "full" => WireBody(wire) = SnoozeText(<<48>>))

\* C3: a request whose parsed path is not /snooze/ followed only by digits
\* is never delayed and is answered with the configured message verbatim
C3_DefaultRoute ==
  (pc \in ParsedPcs /\ ~IsSnoozePath(request.path))
  => /\ pc # "sleep"
     /\ wake = 0
     /\ request.snooze_seconds = 0
     /\ (pc \in {"send_hdr", "send_body"} => body = message)
     /\ (resp = "full" => WireBody(wire) = message)

C3_Witness ==
  /\ pc = "log"
  /\ resp = "full"
  /\ request.path = SNOOZE_PREFIX \o <<49, 50, 97>>
  /\ request.additional_headers # <<>>
  /\ WireBody(wire) = DEFAULT_MESSAGE

\* C4: the Content-Length header of every response sent equals the number of
\* body bytes that follow the header block
C4_ContentLength ==
  resp = "full" =>
    /\ WireBlank(wire) # 0
    /\ WireContentLength(wire) = Len(WireBody(wire))
    /\ WireBody(wire) = body

C4_Witness ==
  /\ resp = "full"
  /\ Len(WireBody(wire)) = LongLen
  /\ WireContentLength(wire) = LongLen

\* C5: when the read loop yields zero bytes because the peer has closed
\* without sending anything, no send of a response header
\* or body is attempted on the connection
C5_NoSendAfterEmptyRead ==
  (pc \in ParsedPcs /\ reqbuf = <<>> /\ conn[client_fd].peer = "closed")
  => /\ pc \notin {"send_hdr", "send_body"}
     /\ wire = <<>>

\* C6: whenever the accept loop is outside the loop body, every connection
\* it has accepted is fully closed
C6_ClosedBeforeNextAccept ==
  pc \in IdlePcs =>
    \A k \in Conns : conn[k].st \in {"none", "backlog", "reset", "closed"}

C6_Witness ==
  /\ pc = "recv"
  /\ client_fd = 2
  /\ conn[1].st = "closed"
  /\ conn[1].closes > 0

\* C7: a connection is fully closed only after its write side was shut down
\* and the drain loop has read, the drain reads come after the shutdown, and
\* no response byte is sent (nor a send attempted) once the write side is
\* shut down
C7_CloseOrder ==
  /\ [](pc \in {"send_hdr", "send_body"} => conn[client_fd].st = "open")
  /\ [][/\ \A k \in Conns :
             (conn[k].st # "closed" /\ conn'[k].st = "closed")
               => (conn[k].st = "shutwr" /\ drained)
        /\ (~drained /\ drained') => conn[client_fd].st = "shutwr"
        /\ wire' # wire => (wire' = <<>> \/ conn[client_fd].st = "open")]_vars

C7_Witness ==
  /\ pc = "log"
  /\ resp = "failed"
  /\ drained
  /\ conn[client_fd].st = "closed"

\* C8: at most one accepted connection is unfinished, it is the one being
\* handled, every earlier one is closed and logged, and every later one
\* (also during a snooze delay) still waits to be accepted
C8_OneAtATime ==
  /\ \A k \in Conns :
       conn[k].st \in {"open", "shutwr"} => (pc \in HandlingPcs /\ k = client_fd)
  /\ \A k \in Conns :
       (conn[k].st = "closed" /\ k # client_fd) => conn[k].logs = 1
  /\ pc \in HandlingPcs =>
       /\ \A k \in Conns : k < client_fd => conn[k].st = "closed"
       /\ \A k \in Conns : k > client_fd => conn[k].st \in {"none", "backlog"}

C8_Witness ==
  /\ pc = "sleep"
  /\ now < wake
  /\ client_fd = 1
  /\ conn[2].st = "backlog"

\* C9: after a shutdown signal has been delivered, accept() returns no new
\* client connection
C9_NoAcceptAfterSignal == sig_accepts = 0

\* C10: a connection in progress when the first shutdown signal arrives is
\* finished before the process exits: its response is sent (unless a send
\* fails), it is closed and logged, and only then does the loop stop
C10_FinishAfterSignal ==
  sig_conn # 0 =>
    /\ pc \in {"exit", "done"} =>
         /\ client_fd = 0
         /\ conn[sig_conn].st = "closed"
         /\ conn[sig_conn].logs = 1
    /\ (client_fd = sig_conn /\ pc \in {"log", "cleanup"}) =>
         /\ resp \in {"full", "failed"}
         /\ drained
         /\ (resp = "full" => wire = header \o body)

C10_Witness ==
  /\ pc = "done"
  /\ sig_conn = 1
  /\ conn[1].st = "closed"
  /\ conn[1].logs = 1

\* C11: every accepted connection that reaches the end of handling has had
\* exactly one request log call, never none and never two, also when no
\* byte was read, the request line could not be parsed or a send failed;
\* before that point it has had none
C11_OneLogPerConnection ==
  \A k \in Conns :
    conn[k].logs =
      IF \/ (k = client_fd /\ pc = "cleanup")
         \/ (k # client_fd /\ conn[k].st = "closed")
        THEN 1 ELSE 0

C11_Witness ==
  /\ pc = "cleanup"
  /\ reqbuf = <<>>
  /\ resp = "failed"
  /\ conn[client_fd].logs = 1
  /\ request.method = DEFAULT_METHOD

\* C12: the request buffer never holds more than its capacity of
\* MAX_REQ_SIZE - 1 bytes and no recv() is issued once it is full; a
\* connection whose buffer filled up without a blank line still gets a
\* request with every field set, the ordinary response and the close
C12_StopsAtCapacity ==
  /\ Len(reqbuf) <= MAX_REQ_SIZE - 1
  /\ (pc = "recv" => Len(reqbuf) < MAX_REQ_SIZE - 1)
  /\ (/\ pc \in ParsedPcs
      /\ Len(reqbuf) = MAX_REQ_SIZE - 1
      /\ strstr(reqbuf, 1, CRLFCRLF) = 0)
     => /\ request.method # <<>>
        /\ request.path # <<>>
        /\ request.user_agent # <<>>
        /\ request.snooze_seconds \in Int
        /\ pc # "sleep"
        /\ (pc \in {"send_hdr", "send_body"} =>
              body = message /\ header = FormatHeader(Len(message)))
        /\ (resp = "full" => wire = FormatHeader(Len(message)) \o message)
        /\ (pc \in {"log", "cleanup"} =>
              /\ resp \in {"full", "failed"}
              /\ conn[client_fd].st = "closed")

C12_Witness ==
  /\ pc = "cleanup"
  /\ reqbuf = Take(REQ_FLOOD, MAX_REQ_SIZE - 1)
  /\ request.path = DEFAULT_PATH
  /\ resp = "full"
  /\ wire = FormatHeader(Len(message)) \o message
  /\ conn[client_fd].st = "closed"

\* C13: the reader stops as soon as the bytes accumulated in the request
\* buffer contain "\r\n\r\n" anywhere, whatever the bytes are (also when a
\* zero byte precedes the terminator): no recv() is issued once they do
C13_StopsAtTerminator ==
  pc = "recv" => strstr(reqbuf, 1, CRLFCRLF) = 0

\* C14: a recv() interrupted by a signal is retried: the delivery of a
\* signal during the reading phase does not end the reading phase
C14_InterruptedReadRetried ==
  [][(pc = "recv" /\ sigs' # sigs) => pc' = "recv"]_vars

\* C15: the bytes on the wire are always a prefix of the header followed by
\* the body: the header bytes in order while the header is sent, then the
\* whole header and the body bytes in order; a partial send is continued
\* where it stopped and a send interrupted by a signal is retried, until
\* the response is complete; once a send has failed no further byte is sent
\* (no body byte after a failed header send) and the close sequence follows
C15_SendAllOrStop ==
  /\ [](/\ (pc = "send_hdr" => wire = Take(header, sent))
        /\ (pc = "send_body" => wire = header \o Take(body, sent))
        /\ (resp = "full" => wire = header \o body)
        /\ (resp = "failed" =>
              /\ pc \in {"gc_shutdown", "gc_drain", "gc_close", "log", "cleanup"}
              /\ Len(wire) < Len(header \o body)
              /\ wire = Take(header \o body, Len(wire))))
  /\ [][/\ (pc \in {"send_hdr", "send_body"} /\ sigs' # sigs) =>
             (pc' = pc /\ sent' = sent /\ wire' = wire /\ resp' = resp)
        /\ (pc \in {"send_hdr", "send_body"} /\ sent < Len(SendBuf)) =>
             \/ (pc' = pc /\ sent' >= sent)
             \/ (pc' = "gc_shutdown" /\ resp' = "failed" /\ wire' = wire)
        /\ (resp = "failed" /\ pc # "cleanup") => wire' = wire]_vars

C15_Witness ==
  /\ pc = "log"
  /\ resp = "failed"
  /\ wire # <<>>
  /\ Len(wire) < Len(header)
  /\ conn[client_fd].st = "closed"

\* C16: the drain loop of graceful_close discards every chunk it reads
\* (nothing of it reaches the request or the wire) and reads on after a
\* chunk; it is left only for the close, a signal that interrupts it makes
\* it retry, and the close that follows closes the connection; the peer
\* sending a finite number of bytes, the loop ends and the close is reached
C16_DrainThenClose ==
  /\ [][pc = "gc_drain" =>
          /\ pc' \in {"gc_drain", "gc_close"}
          /\ reqbuf' = reqbuf /\ request' = request /\ wire' = wire
          /\ (sigs' # sigs => (pc' = pc /\ conn' = conn))
          /\ (Len(conn'[client_fd].rcvbuf) < Len(conn[client_fd].rcvbuf) =>
                /\ pc' = "gc_drain"
                /\ conn'[client_fd].rcvbuf =
                     Drop(conn[client_fd].rcvbuf,
                          Min(Len(conn[client_fd].rcvbuf), DRAIN_BUF_SIZE) + 1))]_vars
  /\ [][pc = "gc_close" =>
          \/ pc' = "gc_close"
          \/ (pc' = "log" /\ conn'[client_fd].st = "closed")]_vars
  /\ (pc = "gc_drain" ~> (pc = "log" /\ conn[client_fd].st = "closed"))

C16_Witness ==
  /\ pc = "gc_close"
  /\ drained
  /\ plan[client_fd] = REQ_LONG_BODY
  /\ reqbuf = Take(REQ_LONG_BODY, ChunkSize)
  /\ conn[client_fd].peer = "open"
  /\ conn[client_fd].tosend = <<>>
  /\ conn[client_fd].rcvbuf = <<>>

\* digit string d is a decimal numeral of the natural number n
RECURSIVE IsDecimalOf(_, _)
IsDecimalOf(d, n) ==
  IF d = <<>> THEN n = 0
  ELSE /\ d[Len(d)] - 48 = n % 10
       /\ IsDecimalOf(SubSeq(d, 1, Len(d) - 1), n \div 10)

\* C17: for a parsed path /snooze/<digits>, however long the digit string,
\* snooze_seconds is non-negative and equal to the decimal value of the
\* digits; for every other path it is 0
C17_SnoozeSecondsIsValue ==
  pc \in ParsedPcs =>
    IF IsSnoozePath(request.path)
      THEN /\ request.snooze_seconds >= 0
           /\ IsDecimalOf(SubSeq(request.path, 9, Len(request.path)),
                          request.snooze_seconds)
      ELSE request.snooze_seconds = 0

\* the first line of a text: what precedes its first "\r\n", else all of it
FirstLine(text) ==
  LET f == strstr(text, 1, CRLF)
  IN  IF f = 0 THEN text ELSE Take(text, f - 1)

\* the number of spaces in a line
Spaces(line) == Cardinality({i \in 1..Len(line) : line[i] = 32})

\* "user-agent:" occurs at position i of the text, in any letter case
UserAgentAt(text, i) ==
  /\ i + Len(USER_AGENT) <= Len(text)
  /\ \A j \in 1..Len(USER_AGENT) :
       tolower(text[i + j - 1]) = tolower(USER_AGENT[j])
  /\ text[i + Len(USER_AGENT)] = 58

\* C18: after parsing, whatever the buffer holds, every field of the
\* request is set: method, path and user_agent are non-empty strings and
\* snooze_seconds is a number; a request line with fewer than two spaces
\* leaves method "GET" and path "/", a buffer without a User-Agent header
\* leaves user_agent "unknown", and an empty buffer leaves all the defaults
C18_FieldsDefined ==
  pc \in ParsedPcs =>
    /\ request.method # <<>> /\ \A i \in 1..Len(request.method) : request.method[i] # 0
    /\ request.path # <<>> /\ \A i \in 1..Len(request.path) : request.path[i] # 0
    /\ request.user_agent # <<>>
    /\ \A i \in 1..Len(request.user_agent) : request.user_agent[i] # 0
    /\ request.snooze_seconds \in Int
    /\ (Spaces(FirstLine(CStr(reqbuf))) < 2 =>
          /\ request.method = DEFAULT_METHOD
          /\ request.path = DEFAULT_PATH
          /\ request.snooze_seconds = 0)
    /\ ((\A i \in 1..Len(reqbuf) : ~UserAgentAt(CStr(reqbuf), i)) =>
          request.user_agent = DEFAULT_AGENT)
    /\ (reqbuf = <<>> => request.additional_headers = <<>>)

C18_Witness ==
  /\ pc = "handle"
  /\ reqbuf = REQ_ONE_SPACE
  /\ request.method = DEFAULT_METHOD
  /\ request.path = DEFAULT_PATH
  /\ request.user_agent = DEFAULT_AGENT
  /\ request.snooze_seconds = 0

\* the request line token before the first space (the line has one)
Token1(line) == Take(line, memchr(line, 1, 32, Len(line)) - 1)

\* the request line token between the first two spaces (the line has two)
Token2(line) ==
  LET a == memchr(line, 1, 32, Len(line))
      b == memchr(line, a + 1, 32, Len(line) - a)
  IN  SubSeq(line, a + 1, b - 1)

\* where the header block of a text ends: at its first empty line, else at
\* the end of the text
HeaderEnd(text) ==
  IF MatchAt(text, 1, CRLF) THEN 1
  ELSE IF strstr(text, 1, CRLFCRLF) = 0 THEN Len(text) + 1
  ELSE strstr(text, 1, CRLFCRLF) + 2

\* the positions at which a header line of the header block starts
HeaderStarts(text) ==
  {i \in 3..Len(text) : MatchAt(text, i - 2, CRLF) /\ i < HeaderEnd(text)}

\* a sequence without its leading spaces and tabs
RECURSIVE StripBlanks(_)
StripBlanks(v) ==
  IF v # <<>> /\ v[1] \in {32, 9} THEN StripBlanks(Tail(v)) ELSE v

\* the line that starts at position i of a text
LineAt(text, i) == FirstLine(Drop(text, i))

\* the value of the header line that starts at position i
ValueAt(text, i) ==
  LET line == LineAt(text, i)
  IN  StripBlanks(Drop(line, memchr(line, 1, 58, Len(line)) + 1))

\* C19: a method, a request target or a User-Agent value that is longer
\* than its destination is stored truncated to the capacity of the
\* destination (the field is a prefix of the received value), and no field
\* ever holds more than its destination can
C19_TruncatedToCapacity ==
  pc \in ParsedPcs =>
    LET text == CStr(reqbuf)
        line == FirstLine(text)
        agents == {i \in HeaderStarts(text) : UserAgentAt(text, i)}
    IN  /\ Len(request.method) < MAX_METHOD_SIZE
        /\ Len(request.path) < MAX_PATH_SIZE
        /\ Len(request.user_agent) < MAX_AGENT_SIZE
        /\ Len(request.additional_headers) < MAX_HEADERS_SIZE
        /\ (Spaces(line) >= 2 /\ Len(Token1(line)) >= MAX_METHOD_SIZE) =>
              request.method = Take(Token1(line), MAX_METHOD_SIZE - 1)
        /\ (Spaces(line) >= 2 /\ Len(Token2(line)) >= MAX_PATH_SIZE) =>
              request.path = Take(Token2(line), MAX_PATH_SIZE - 1)
        /\ \A i \in agents :
              ((\A j \in agents : j <= i)
                 /\ Len(ValueAt(text, i)) >= MAX_AGENT_SIZE) =>
              request.user_agent = Take(ValueAt(text, i), MAX_AGENT_SIZE - 1)

\* the name of the header line that starts at position i (it has a colon)
NameAt(text, i) ==
  LET line == LineAt(text, i)
  IN  Take(line, memchr(line, 1, 58, Len(line)) - 1)

\* the records of the header lines that start at the positions in S, in
\* the order of the positions, separated by commas
RECURSIVE JoinRecords(_, _)
JoinRecords(text, S) ==
  IF S = {} THEN <<>>
  ELSE LET i == CHOOSE x \in S : \A y \in S : x <= y
           rest == S \ {i}
       IN  JsonEntry(NameAt(text, i), ValueAt(text, i))
             \o (IF rest = {} THEN <<>> ELSE <<44>> \o JoinRecords(text, rest))

\* C20: of the header lines that precede the first empty line (or the end
\* of the buffer), the one named User-Agent in any letter case is stored in
\* user_agent (the last one if there are several) and is not among the
\* other headers; every other line with a colon is in additional_headers,
\* in order of appearance; no later line contributes
C20_HeaderClassification ==
  pc \in ParsedPcs =>
    LET text == CStr(reqbuf)
        colons == {i \in HeaderStarts(text) :
                     memchr(LineAt(text, i), 1, 58, Len(LineAt(text, i))) # 0}
        agents == {i \in colons : UserAgentAt(text, i)}
    IN  /\ \A i \in agents :
             (\A j \in agents : j <= i) =>
               request.user_agent =
                 IF ValueAt(text, i) = <<>> THEN DEFAULT_AGENT
                 ELSE ValueAt(text, i)
        /\ (agents = {} => request.user_agent = DEFAULT_AGENT)
        /\ request.additional_headers = JoinRecords(text, colons \ agents)

\* C21: each accepted client descriptor is closed exactly once: no close()
\* is issued on a descriptor that has been closed already
C21_ClosedOnce == \A k \in Conns : conn[k].closes <= 1

\* C22: once a shutdown signal has been delivered the process leaves the
\* accept loop, closes the listening socket and logs the shutdown, wherever
\* in the loop head the signal landed and without the help of a further
\* client: from a loop head with keep_running cleared the process comes to
\* its end, unless a connection is accepted first
C22_ShutdownWithoutClient ==
  (keep_running = 0 /\ pc \in {"loop", "accept_call", "accept_blocked"})
    ~> ((pc = "done" /\ shutdown_logged = 1) \/ pc \in HandlingPcs)
====
